---- MODULE Spec2Model ----
(***************************************************************************)
(* State-machine model of rightmove_watcher.py: the RightMoveWatcher poll  *)
(* loop (watch), the fetch (_get_search_results), the history merge        *)
(* (_add_properties_to_list), the snapshot file and the SMS notifier       *)
(* (send_text).                                                            *)
(*                                                                         *)
(* A PropertyElement is represented by its id alone: PropertyElement.__eq__ *)
(* (lines 59-60) compares ids only, and every membership test of the       *)
(* watcher goes through it.                                                *)
(***************************************************************************)
EXTENDS Naturals, Sequences, FiniteSets

(***************************************************************************)
(* Bounds of the model.                                                    *)
(***************************************************************************)
\* number of distinct listing identifiers the site can show
NumIds == 3
\* longest search-results page
MaxFetchLen == 3
\* consecutive connection failures explored
MaxFails == 5
\* stand-in for the cap of the history (75 in the source)
CapBound == 2
\* stand-in for the lookahead window (10 in the source)
DepthBound == 2

(***************************************************************************)
(* Program constants (RightMoveWatcher.__init__).                          *)
(***************************************************************************)
max_len == CapBound
check_depth == DepthBound
fail_thresh == 3

Ids == 1..NumIds

\* every page get_property_list can return: any sequence of listings,
\* repeated identifiers included
FetchLists == UNION {[1..n -> Ids] : n \in 0..MaxFetchLen}

\* the snapshot file does not exist (0 is no listing, so no page equals it)
Absent == <<0>>

\* no page was parsed in the current cycle
NoPage == <<0>>

\* outcomes of client.messages.create inside send_text: delivered, a
\* requests ConnectionError, or another exception of the SMS client (an API
\* error such as TwilioRestException, a read timeout)
SendOutcomes == {"ok", "connection_error", "api_error"}

VARIABLES
    properties,       \* self.properties: the in-memory history, front first
    snapshot,         \* content of the file ~/.rightmove, or Absent
    _fail_count,      \* self._fail_count
    _new,             \* self._new
    pc,               \* position of watch(): loop, check, merge, flag, sleep, crashed
    new_properties,   \* local new_properties of watch()
    idx,              \* number of loop iterations of line 161 completed
    prev,             \* history at the start of the current cycle
    property_list,    \* local property_list of _get_search_results, or NoPage
    notified,         \* listings printed and passed to send_text this cycle, in order
    no_new,           \* 'No new properties.' was printed this cycle
    alerts,           \* escalation texts attempted since the last successful fetch
    kept,             \* listings held by the history at the end of some cycle and
                      \* shown by every page fetched since, over successful
                      \* cycles with pages no longer than max_len
    err               \* exception that ended watch(), or "none"

vars == <<properties, snapshot, _fail_count, _new, pc, new_properties, idx,
          prev, property_list, notified, no_new, alerts, kept, err>>

(***************************************************************************)
(* Helpers.                                                                *)
(***************************************************************************)
\* prop in self.properties (deque.__contains__ with PropertyElement.__eq__)
Contains(h, prop) == \E i \in 1..Len(h) : h[i] = prop

\* the identifiers of a list
Range(s) == {s[i] : i \in 1..Len(s)}

\* the current cycle's fetch returned a page
fetched == property_list # NoPage

\* AddProperty evicting from the front, popleft() for pop() (a variant used
\* to test the sensitivity of C11)
AddPropertyPopFront(h, prop) ==
    IF Contains(h, prop)
    THEN h
    ELSE LET h1 == <<prop>> \o h
         IN  IF Len(h1) > max_len THEN Tail(h1) ELSE h1

\* AddProperty moving a listing that is already present to the front (a
\* variant used to test the sensitivity of C13)
AddPropertyMoveToFront(h, prop) ==
    LET rest == SelectSeq(h, LAMBDA q : q # prop)
        h1 == <<prop>> \o rest
    IN  IF Len(h1) > max_len THEN SubSeq(h1, 1, Len(h1) - 1) ELSE h1

\* one iteration of the loop of _add_properties_to_list
AddProperty(h, prop) ==
    IF Contains(h, prop)
    THEN h
    ELSE LET h1 == <<prop>> \o h
         IN  IF Len(h1) > max_len THEN SubSeq(h1, 1, Len(h1) - 1) ELSE h1

RECURSIVE _add_properties_to_list(_, _)
_add_properties_to_list(h, new) ==
    IF new = <<>>
    THEN h
    ELSE _add_properties_to_list(AddProperty(h, Head(new)), Tail(new))

\* deque(pickle.load(fobj)) when the file exists, deque() otherwise
_get_previous_property_list(file) == IF file = Absent THEN <<>> ELSE file

(***************************************************************************)
(* Initial state: the watcher constructed with no snapshot file.  A        *)
(* history loaded from a snapshot is a page saved by line 133, and every   *)
(* page is also reachable here as the baseline of the first cycle.         *)
(***************************************************************************)
Init ==
    /\ snapshot = Absent
    /\ properties = _get_previous_property_list(Absent)
    /\ _fail_count = 0
    /\ _new = FALSE
    /\ pc = "loop"
    /\ new_properties = <<>>
    /\ idx = 0
    /\ prev = <<>>
    /\ property_list = NoPage
    /\ notified = <<>>
    /\ no_new = FALSE
    /\ alerts = 0
    /\ kept = {}
    /\ err = "none"

\* Receive with the baseline built by the merge instead of copied from the
\* page (a variant used to test the sensitivity of C5)
ReceiveMerged(result) ==
    IF Len(properties) = 0
    THEN /\ properties' = _add_properties_to_list(<<>>, result)
         /\ new_properties' = <<>>
         /\ pc' = "sleep"
    ELSE /\ properties' = properties
         /\ new_properties' = result
         /\ pc' = "check"

\* watch() receives `result` from _get_search_results: line 157 in INITIAL,
\* line 160 in STEADY
Receive(result) ==
    IF Len(properties) = 0
    THEN /\ properties' = result
         /\ new_properties' = <<>>
         /\ pc' = "sleep"
    ELSE /\ properties' = properties
         /\ new_properties' = result
         /\ pc' = "check"

\* the exception `e` leaves watch(): the process ends
Raise(e) ==
    /\ pc' = "crashed"
    /\ err' = e

\* FetchOk without the reset of line 132 (a variant used to test the
\* sensitivity of C18)
FetchOkNoReset ==
    /\ pc = "loop"
    /\ \E page \in FetchLists :
        /\ property_list' = page
        /\ snapshot' = page
        /\ Receive(page)
        /\ kept' = IF Len(page) <= max_len THEN kept \cap Range(page) ELSE {}
    /\ prev' = properties
    /\ alerts' = 0
    /\ idx' = 0
    /\ UNCHANGED <<_fail_count, _new, notified, no_new, err>>

\* _get_search_results, status 200 and a page that parses to `page`
FetchOk ==
    /\ pc = "loop"
    /\ \E page \in FetchLists :
        /\ property_list' = page
        /\ _fail_count' = 0
        /\ snapshot' = page
        /\ Receive(page)
        /\ kept' = IF Len(page) <= max_len THEN kept \cap Range(page) ELSE {}
    /\ prev' = properties
    /\ alerts' = 0
    /\ idx' = 0
    /\ UNCHANGED <<_new, notified, no_new, err>>

\* FetchBadStatus with the reset of line 132 done before the status test
\* (a variant used to test the sensitivity of C15)
FetchBadStatusReset ==
    /\ pc = "loop"
    /\ Raise("RuntimeError")
    /\ prev' = properties
    /\ _fail_count' = 0
    /\ UNCHANGED <<properties, snapshot, _new, new_properties, idx,
                   property_list, notified, no_new, alerts, kept>>

\* _get_search_results, status other than 200: the RuntimeError of line 130
\* is not caught by the except clause of line 135
FetchBadStatus ==
    /\ pc = "loop"
    /\ Raise("RuntimeError")
    /\ prev' = properties
    /\ UNCHANGED <<properties, snapshot, _fail_count, _new, new_properties, idx,
                   property_list, notified, no_new, alerts, kept>>

\* _get_search_results, a page without the results container or a field:
\* get_property_list raises, not caught
FetchBadPage ==
    /\ pc = "loop"
    /\ Raise("AttributeError")
    /\ prev' = properties
    /\ UNCHANGED <<properties, snapshot, _fail_count, _new, new_properties, idx,
                   property_list, notified, no_new, alerts, kept>>

\* _get_search_results, requests.exceptions.ConnectionError (lines 135-140):
\* count, escalate through send_text when over the threshold, and return
\* self.properties itself, which watch() then treats as the fetched page
FetchConnectionError ==
    /\ pc = "loop"
    /\ _fail_count < MaxFails
    /\ _fail_count' = _fail_count + 1
    /\ prev' = properties
    /\ idx' = 0
    /\ kept' = {}
    /\ UNCHANGED <<snapshot, _new, property_list, notified, no_new>>
    /\ IF _fail_count + 1 > fail_thresh
       THEN /\ alerts' = alerts + 1
            /\ \E o \in SendOutcomes :
                IF o = "api_error"
                THEN /\ Raise("TwilioRestException")
                     /\ UNCHANGED <<properties, new_properties>>
                ELSE /\ Receive(properties)
                     /\ UNCHANGED err
       ELSE /\ alerts' = alerts
            /\ Receive(properties)
            /\ UNCHANGED err

\* Advance with a window one entry longer (a variant used to test the
\* sensitivity of C4)
AdvanceOneMore ==
    /\ idx' = idx + 1
    /\ pc' = IF idx + 1 = check_depth + 1 THEN "merge" ELSE "check"

\* the for loop of line 161 goes on to its next index, or ends; pc = "check"
\* holds while an index of range(check_depth) is left
Advance ==
    /\ idx' = idx + 1
    /\ pc' = IF idx + 1 = check_depth THEN "merge" ELSE "check"

\* line 162 with idx beyond the end of new_properties: IndexError, not caught
CheckIndexError ==
    /\ pc = "check"
    /\ idx + 1 > Len(new_properties)
    /\ Raise("IndexError")
    /\ UNCHANGED <<properties, snapshot, _fail_count, _new, new_properties, idx,
                   prev, property_list, notified, no_new, alerts, kept>>

\* lines 162-163, the listing is in the history
CheckKnown ==
    /\ pc = "check"
    /\ idx + 1 <= Len(new_properties)
    /\ Contains(properties, new_properties[idx + 1])
    /\ Advance
    /\ UNCHANGED <<properties, snapshot, _fail_count, _new, new_properties,
                   prev, property_list, notified, no_new, alerts, kept, err>>

\* CheckNew with the texts going out newest first (a variant used to test
\* the sensitivity of C14)
CheckNewPrepend ==
    /\ pc = "check"
    /\ idx + 1 <= Len(new_properties)
    /\ ~Contains(properties, new_properties[idx + 1])
    /\ notified' = <<new_properties[idx + 1]>> \o notified
    /\ \E o \in SendOutcomes :
        IF o = "api_error"
        THEN /\ Raise("TwilioRestException")
             /\ UNCHANGED <<_new, idx>>
        ELSE /\ _new' = TRUE
             /\ Advance
             /\ UNCHANGED err
    /\ UNCHANGED <<properties, snapshot, _fail_count, new_properties,
                   prev, property_list, no_new, alerts, kept>>

\* lines 162-166, the listing is not in the history: print, send_text, flag.
\* send_text catches requests.exceptions.ConnectionError only (line 150).
CheckNew ==
    /\ pc = "check"
    /\ idx + 1 <= Len(new_properties)
    /\ ~Contains(properties, new_properties[idx + 1])
    /\ notified' = Append(notified, new_properties[idx + 1])
    /\ \E o \in SendOutcomes :
        IF o = "api_error"
        THEN /\ Raise("TwilioRestException")
             /\ UNCHANGED <<_new, idx>>
        ELSE /\ _new' = TRUE
             /\ Advance
             /\ UNCHANGED err
    /\ UNCHANGED <<properties, snapshot, _fail_count, new_properties,
                   prev, property_list, no_new, alerts, kept>>

\* line 167.  After a connection failure new_properties is the history
\* itself; every entry is then present, so the deque is not changed while
\* it is iterated and the call has the effect computed here.
Merge ==
    /\ pc = "merge"
    /\ properties' = _add_properties_to_list(properties, new_properties)
    /\ pc' = "flag"
    /\ UNCHANGED <<snapshot, _fail_count, _new, new_properties, idx,
                   prev, property_list, notified, no_new, alerts, kept, err>>

\* Flag without the reset of line 169 (a variant used to test the
\* sensitivity of C17)
FlagNoReset ==
    /\ pc = "flag"
    /\ no_new' = ~_new
    /\ pc' = "sleep"
    /\ UNCHANGED <<properties, snapshot, _fail_count, _new, new_properties, idx,
                   prev, property_list, notified, alerts, kept, err>>

\* lines 168-171
Flag ==
    /\ pc = "flag"
    /\ IF _new
       THEN /\ _new' = FALSE
            /\ no_new' = FALSE
       ELSE /\ _new' = _new
            /\ no_new' = TRUE
    /\ pc' = "sleep"
    /\ UNCHANGED <<properties, snapshot, _fail_count, new_properties, idx,
                   prev, property_list, notified, alerts, kept, err>>

\* line 172, then the next iteration of while True; the records of the
\* finished cycle are dropped
Sleep ==
    /\ pc = "sleep"
    /\ pc' = "loop"
    /\ new_properties' = <<>>
    /\ idx' = 0
    /\ prev' = <<>>
    /\ property_list' = NoPage
    /\ notified' = <<>>
    /\ no_new' = FALSE
    /\ kept' = kept \cup Range(properties)
    /\ UNCHANGED <<properties, snapshot, _fail_count, _new, alerts, err>>

Next ==
    \/ FetchOk
    \/ FetchBadStatus
    \/ FetchBadPage
    \/ FetchConnectionError
    \/ CheckIndexError
    \/ CheckKnown
    \/ CheckNew
    \/ Merge
    \/ Flag
    \/ Sleep

Spec == Init /\ [][Next]_vars

(***************************************************************************)
(* Vocabulary of the properties.                                           *)
(***************************************************************************)
\* no identifier occurs twice in h
NoDuplicates(h) == \A i, j \in 1..Len(h) : h[i] = h[j] => i = j

\* a cycle that began with a populated history (the else branch of line 159)
Steady == prev # <<>>

\* the merge of line 167 has run in the current cycle
Merged == pc \in {"flag", "sleep"} /\ Steady

\* the entries among the first k of page l that history h does not hold
NewInWindow(h, l, k) ==
    SelectSeq(SubSeq(l, 1, k), LAMBDA prop : ~Contains(h, prop))

\* iterations of the loop of line 161 that reached the test of line 163
Inspected == IF err = "TwilioRestException" /\ fetched THEN idx + 1 ELSE idx

(***************************************************************************)
(* C1. After _add_properties_to_list(L) into a history without duplicates  *)
(* and within the cap, every identifier of L is in the history; stated for *)
(* the pages the cap can hold (at most max_len distinct identifiers).      *)
(* The code evicts from the back without looking at L, so a listing of L   *)
(* that sits at the back of a full history is dropped when another listing *)
(* of L is inserted.                                                       *)
(***************************************************************************)
C1_MergeKeepsFetched ==
    (/\ Merged
     /\ fetched
     /\ NoDuplicates(prev)
     /\ Len(prev) <= max_len
     /\ Cardinality(Range(new_properties)) <= max_len)
    => \A id \in Range(new_properties) : Contains(properties, id)

(***************************************************************************)
(* C2. The in-memory history never holds more than max_len listings.  The  *)
(* baseline of line 157 takes the whole first page, whatever its length.   *)
(***************************************************************************)
C2_HistoryWithinCap == Len(properties) <= max_len

(***************************************************************************)
(* C3. The in-memory history holds no identifier twice.  The baseline of   *)
(* line 157 copies the first page with its repetitions.                    *)
(***************************************************************************)
C3_HistoryNoDuplicates == NoDuplicates(properties)

(***************************************************************************)
(* C4. In a STEADY cycle whose fetch returned at least check_depth         *)
(* entries, the listings notified are, in order, exactly the entries among *)
(* those inspected so far that the history of the start of the cycle does  *)
(* not hold; once the loop has ended the inspected entries are the first   *)
(* check_depth ones, and the whole page is merged with no notification     *)
(* for an entry beyond the window.                                         *)
(***************************************************************************)
C4_NotifyExactlyNewInWindow ==
    (fetched /\ Steady /\ Len(property_list) >= check_depth)
    => /\ new_properties = property_list
       /\ notified = NewInWindow(prev, property_list, Inspected)
       /\ pc \in {"merge", "flag", "sleep"} => Inspected = check_depth
       /\ pc \in {"check", "merge", "crashed"} => properties = prev
       /\ Merged => properties = _add_properties_to_list(prev, property_list)

\* a finished STEADY cycle that notified a listing of the window and merged
\* an unknown listing from beyond the window without notifying it
C4_Witness ==
    /\ pc = "sleep"
    /\ fetched
    /\ Steady
    /\ notified # <<>>
    /\ \E i \in (check_depth + 1)..Len(property_list) :
        /\ ~Contains(prev, property_list[i])
        /\ ~Contains(notified, property_list[i])
        /\ Contains(properties, property_list[i])

(***************************************************************************)
(* C5. A cycle that starts with an empty history and fetches a non-empty   *)
(* page L goes straight to the sleep with the history equal to L in page   *)
(* order and nothing notified; the history is then non-empty, so the test  *)
(* of line 156 sends the next cycle to the STEADY branch.                  *)
(***************************************************************************)
C5_BaselineSeedsHistory ==
    (fetched /\ ~Steady /\ property_list # <<>>)
    => /\ pc = "sleep"
       /\ properties = property_list
       /\ notified = <<>>
       /\ ~_new
       /\ Len(properties) > 0

\* a baseline of two different listings, whose order can be told
C5_Witness ==
    /\ pc = "sleep"
    /\ fetched
    /\ ~Steady
    /\ Len(property_list) >= 2
    /\ property_list[1] # property_list[2]
    /\ properties = property_list

(***************************************************************************)
(* C6. In a run of consecutive connection failures the escalation text is  *)
(* sent on the fail_thresh-th failure and only then: one alert once the    *)
(* counter has reached fail_thresh, none before.  The code tests           *)
(* _fail_count > fail_thresh after the increment, on every failure.        *)
(***************************************************************************)
C6_AlertOnceAtThreshold ==
    alerts = IF _fail_count >= fail_thresh THEN 1 ELSE 0

(***************************************************************************)
(* C7. A cycle whose fetch failed with a connection error has counted the  *)
(* failure, leaves the history as it was, notifies nothing and does not    *)
(* end watch().  The code hands the history itself to the loop of line     *)
(* 161, which indexes check_depth entries of it.                           *)
(***************************************************************************)
ConnectionFailedCycle ==
    /\ pc # "loop"
    /\ ~fetched
    /\ err \notin {"RuntimeError", "AttributeError"}

C7_ConnectionFailureIsRecoverable ==
    ConnectionFailedCycle
    => /\ _fail_count > 0
       /\ properties = prev
       /\ notified = <<>>
       /\ pc # "crashed"

(***************************************************************************)
(* C8. A STEADY cycle whose fetch returned fewer than check_depth entries  *)
(* does not fail on them: the loop of line 161 inspects no index beyond    *)
(* the entries available.                                                  *)
(***************************************************************************)
C8_ShortPageIsClamped ==
    (fetched /\ Steady /\ Len(property_list) < check_depth)
    => /\ err # "IndexError"
       /\ idx <= Len(property_list)

(***************************************************************************)
(* C9. At the end of a cycle whose fetch succeeded the snapshot file holds *)
(* the in-memory history, same identifiers in the same order; stated for   *)
(* histories and pages without repeated identifiers.  The code writes the  *)
(* fetched page (line 133), before the merge.                              *)
(***************************************************************************)
C9_SnapshotIsHistory ==
    (/\ pc = "sleep"
     /\ fetched
     /\ NoDuplicates(prev)
     /\ NoDuplicates(property_list))
    => snapshot = properties

(***************************************************************************)
(* C10. No failure of a notification send ends watch().  send_text catches *)
(* requests.exceptions.ConnectionError and nothing else.                   *)
(***************************************************************************)
C10_SendFailureIsSwallowed == err # "TwilioRestException"

(***************************************************************************)
(* Vocabulary of the later properties.                                     *)
(***************************************************************************)
\* number of appendleft calls _add_properties_to_list(l) makes on history h
RECURSIVE Insertions(_, _)
Insertions(h, l) ==
    IF l = <<>>
    THEN 0
    ELSE (IF Contains(h, Head(l)) THEN 0 ELSE 1)
         + Insertions(AddProperty(h, Head(l)), Tail(l))

\* position of listing x in the duplicate-free list h
Pos(h, x) == CHOOSE i \in 1..Len(h) : h[i] = x

\* the indices of the page that the loop of line 161 can inspect
Window == 1..(IF Len(new_properties) < check_depth
              THEN Len(new_properties) ELSE check_depth)

(***************************************************************************)
(* C11. A merge that makes one insertion into a history at the cap leaves  *)
(* the size at the cap and removes exactly the back entry: the result is   *)
(* the new listing followed by the prior entries but the last, in order.   *)
(***************************************************************************)
C11_EvictsOldest ==
    (/\ Merged
     /\ Len(prev) = max_len
     /\ Insertions(prev, new_properties) = 1)
    => /\ Len(properties) = max_len
       /\ ~Contains(prev, properties[1])
       /\ Contains(new_properties, properties[1])
       /\ SubSeq(properties, 2, max_len) = SubSeq(prev, 1, max_len - 1)

\* a finished cycle that inserted one listing into a full history
C11_Witness ==
    /\ pc = "sleep"
    /\ Steady
    /\ fetched
    /\ NoDuplicates(prev)
    /\ Len(prev) = max_len
    /\ Insertions(prev, new_properties) = 1
    /\ ~Contains(properties, prev[max_len])

(***************************************************************************)
(* C12. Listings of one page that are new to the history stand in the      *)
(* merged history, read front to back, in their page order; stated for     *)
(* histories and pages without repeated identifiers and for the new        *)
(* listings the merged history holds.  The code calls appendleft in page   *)
(* order, which reverses them.                                             *)
(***************************************************************************)
C12_NewKeepPageOrder ==
    (/\ Merged
     /\ fetched
     /\ NoDuplicates(prev)
     /\ NoDuplicates(property_list))
    => \A i, j \in 1..Len(property_list) :
        (/\ i < j
         /\ ~Contains(prev, property_list[i])
         /\ ~Contains(prev, property_list[j])
         /\ Contains(properties, property_list[i])
         /\ Contains(properties, property_list[j]))
        => Pos(properties, property_list[i]) < Pos(properties, property_list[j])

(***************************************************************************)
(* C13. A merge of a list whose identifiers the history all holds leaves   *)
(* the history as it was, and merging the list once more changes nothing.  *)
(***************************************************************************)
C13_KnownListIsNoOp ==
    (Merged /\ Range(new_properties) \subseteq Range(prev))
    => /\ properties = prev
       /\ _add_properties_to_list(properties, new_properties) = properties

\* a fetched page of known listings, in another order than the history
C13_Witness ==
    /\ pc = "sleep"
    /\ Steady
    /\ fetched
    /\ Len(new_properties) >= 2
    /\ new_properties # prev
    /\ new_properties[1] # prev[1]
    /\ Range(new_properties) \subseteq Range(prev)
    /\ properties = prev

(***************************************************************************)
(* C14. Two different new listings a, b that stand in this order inside    *)
(* the lookahead window are notified in this order: once the entry of b    *)
(* has been inspected, a notification of a precedes one of b.              *)
(***************************************************************************)
C14_NotifyInPageOrder ==
    (fetched /\ Steady)
    => \A i, j \in Window :
        (/\ i < j
         /\ j <= Inspected
         /\ new_properties[i] # new_properties[j]
         /\ ~Contains(prev, new_properties[i])
         /\ ~Contains(prev, new_properties[j]))
        => \E m, n \in 1..Len(notified) :
            /\ m < n
            /\ notified[m] = new_properties[i]
            /\ notified[n] = new_properties[j]

\* a finished cycle that notified two different listings
C14_Witness ==
    /\ pc = "sleep"
    /\ fetched
    /\ Steady
    /\ Len(notified) >= 2
    /\ notified[1] # notified[2]
    /\ notified[1] = new_properties[1]

(***************************************************************************)
(* C15. A fetch that ends in a status other than 200 or in a page that     *)
(* cannot be extracted ends the cycle with the error and changes nothing:  *)
(* history, snapshot, failure counter and the notifications are as before. *)
(***************************************************************************)
C15_FailedFetchChangesNothing ==
    [][(pc = "loop" /\ err' \in {"RuntimeError", "AttributeError"})
       => /\ pc' = "crashed"
          /\ properties' = properties
          /\ snapshot' = snapshot
          /\ _fail_count' = _fail_count
          /\ notified' = notified
          /\ notified' = <<>>
          /\ alerts' = alerts]_vars

\* the fetch failed that way with a history, a snapshot and a count to keep
C15_Witness ==
    /\ pc = "crashed"
    /\ err = "RuntimeError"
    /\ properties # <<>>
    /\ snapshot # Absent
    /\ snapshot # properties
    /\ _fail_count > 0

(***************************************************************************)
(* C16. The snapshot is written after the notifications of the cycle were  *)
(* attempted: a new listing of the window that the snapshot holds has been *)
(* notified.  The code writes the snapshot inside _get_search_results      *)
(* (line 133), before the loop of line 161.                                *)
(***************************************************************************)
C16_NotifyBeforePersist ==
    (fetched /\ Steady)
    => \A i \in Window :
        (~Contains(prev, new_properties[i]) /\ Contains(snapshot, new_properties[i]))
        => Contains(notified, new_properties[i])

(***************************************************************************)
(* C17. A finished STEADY cycle has printed 'No new properties.' exactly   *)
(* when it notified nothing, and _new is false whenever a cycle starts or  *)
(* ends.                                                                   *)
(***************************************************************************)
C17_NoNewIffNothingNotified ==
    /\ (pc = "sleep" /\ Steady) => (no_new <=> notified = <<>>)
    /\ pc \in {"loop", "sleep"} => ~_new

\* a finished cycle that found nothing new in the window of a fetched page
C17_Witness ==
    /\ pc = "sleep"
    /\ Steady
    /\ fetched
    /\ no_new
    /\ notified = <<>>
    /\ Len(new_properties) >= check_depth

(***************************************************************************)
(* C18. _fail_count counts the connection failures since the last          *)
(* successful fetch: a successful fetch sets it to 0, a connection failure *)
(* adds 1, nothing else changes it; an escalation text goes out only with  *)
(* more than fail_thresh failures in a row.                                *)
(***************************************************************************)
C18_CounterIsConsecutiveFailures ==
    [][/\ IF pc = "loop" /\ property_list' # NoPage
          THEN _fail_count' = 0
          ELSE IF pc = "loop" /\ err' \notin {"RuntimeError", "AttributeError"}
               THEN _fail_count' = _fail_count + 1
               ELSE _fail_count' = _fail_count
       /\ alerts' > alerts => _fail_count' > fail_thresh]_vars

\* a first failure counted in a cycle that comes after a successful fetch
C18_Witness ==
    /\ pc = "sleep"
    /\ ~fetched
    /\ _fail_count = 1
    /\ snapshot # Absent
    /\ alerts = 0

(***************************************************************************)
(* C19. No listing is notified twice in one cycle.  The history is not     *)
(* touched by the loop of line 161, so a new listing that the window shows *)
(* twice passes the test of line 163 twice.                                *)
(***************************************************************************)
C19_NotifiedOncePerCycle == NoDuplicates(notified)

(***************************************************************************)
(* C20. Over successful cycles with pages no longer than max_len, a        *)
(* listing that the history held at the end of a cycle and that every      *)
(* later page shows is not notified.  The eviction of line 124 drops such  *)
(* a listing from the back when another one is inserted (see C1), and the  *)
(* next cycle finds it absent.                                             *)
(***************************************************************************)
C20_KeptNeverNotified ==
    \A i \in 1..Len(notified) : notified[i] \notin kept

====
